---- MODULE Spec2Model ----
(***************************************************************************)
(* Model of the backend template: the settings provider (app/core/config), *)
(* the exception taxonomy and its two boundary handlers                    *)
(* (app/core/exceptions) and the database session provider                 *)
(* (app/db/session).                                                       *)
(*                                                                         *)
(* Python strings whose characters matter (environment names, connection   *)
(* strings, raw CORS values) are sequences of one-character strings, so    *)
(* that lower(), strip(), split(), startswith(), the substring test and    *)
(* the JSON parse are computed character by character.                     *)
(***************************************************************************)
EXTENDS Integers, Sequences, FiniteSets, TLC

VARIABLES
    \* app/db/session.py
    sessions,     \* every Session made by SessionLocal(), in creation order
    scopes,       \* the get_db() generators, by scope id
    committed,    \* the rows persisted in the database
    \* app/core/exceptions.py
    requests,     \* by request id: the exception raised, the response returned
    heap,         \* the dict objects that details arguments and attributes name
    \* app/core/config.py and the module level of app/db/session.py
    environ,      \* the process environment (the keys Settings reads)
    instances,    \* every Settings object constructed, in creation order
    cache,        \* the lru_cache of get_settings: 0 (empty) or an instance id
    settings,     \* the module-level name `settings`: 0 (module not loaded) or an id
    lastCall,     \* what the latest get_settings() call did
    engine,       \* the module-level engine of app/db/session.py
    lastInitDb,   \* what the latest init_db() call created the tables on
    \* direct calls of the validators and of the engine's connect_args expression
    fnIn,         \* the argument
    fnOut         \* the result, or NotCalled

dbVars  == <<sessions, scopes, committed>>
errVars == <<requests, heap>>
cfgVars == <<environ, instances, cache, settings, lastCall, engine, lastInitDb>>
fnVars  == <<fnIn, fnOut>>
vars    == <<sessions, scopes, committed, requests, heap, environ, instances,
             cache, settings, lastCall, engine, lastInitDb, fnIn, fnOut>>

-----------------------------------------------------------------------------
(* Bounds *)

MaxScopes == 2      \* get_db() generators per run
MaxRequests == 2    \* requests failing with an unanticipated error at once
MaxInstances == 2   \* Settings objects constructed per run

-----------------------------------------------------------------------------
(* app/db/session.py: SessionLocal, get_db *)

ScopeIds == 1..MaxScopes

\* A step of the session provider leaves the other components alone.
OnlyDb == UNCHANGED <<requests, heap, environ, instances, cache, settings,
                      lastCall, engine, lastInitDb, fnIn, fnOut>>

\* The rows a caller may add to its session.
Rows == {"r1", "r2"}

\* The exceptions a caller may raise inside the scope.
CallerExceptions == {"ValueError", "NotFoundException"}

\* A plausible slip: the factory binds each new session to the database URL
\* of whatever get_settings() returns at that moment.
SessionLocalBindsCurrentSettings ==
    [state |-> "open", pending |-> {}, dropped |-> {}, closes |-> 0,
     ops |-> <<"SessionLocal">>,
     bind |-> IF cache # 0
              THEN [engine EXCEPT !.url = instances[cache].database_url]
              ELSE engine]

\* SessionLocal(): a new Session bound to the module-level engine
\* (sessionmaker(bind=engine)); autocommit=False and autoflush=False, so
\* nothing reaches the database until commit() is called.
\* `ops` is what get_db itself called on the session; `dropped` the rows that
\* were still uncommitted when the session was closed.
SessionLocal ==
    [state |-> "open", pending |-> {}, dropped |-> {}, closes |-> 0,
     ops |-> <<"SessionLocal">>, bind |-> engine]

\* The Session methods, each on a session and the database's persisted rows,
\* giving both as the call leaves them.
\* Session.close(): the transaction in progress is released, so what was not
\* committed is discarded, and the connection goes back to the pool.
SessionClose(sess, db) ==
    [sess |-> [sess EXCEPT !.state = "closed", !.pending = {},
                           !.dropped = @ \cup sess.pending, !.closes = @ + 1],
     db |-> db]

\* Session.commit(): the pending rows are persisted.
SessionCommit(sess, db) ==
    [sess |-> [sess EXCEPT !.pending = {}], db |-> db \cup sess.pending]

\* Session.rollback(): the pending rows are discarded.
SessionRollback(sess, db) ==
    [sess |-> [sess EXCEPT !.pending = {}], db |-> db]

\* A Session method called by get_db itself, recorded in the session's `ops`.
ByGetDb(op, res) ==
    [res EXCEPT !.sess.ops = Append(@, op)]

\* A plausible slip: no try/finally, close() only after a normal resume.
GetDbFinallyNoTry(sess, db, how) ==
    IF how = "next" THEN ByGetDb("close", SessionClose(sess, db))
    ELSE [sess |-> sess, db |-> db]

\* A plausible slip: "commit on success" before the close.
GetDbFinallyCommits(sess, db, how) ==
    IF how = "next"
    THEN LET c == ByGetDb("commit", SessionCommit(sess, db))
         IN  ByGetDb("close", SessionClose(c.sess, c.db))
    ELSE LET r == ByGetDb("rollback", SessionRollback(sess, db))
         IN  ByGetDb("close", SessionClose(r.sess, r.db))

\* The body of get_db after the yield, resumed by next() (how = "next": the
\* caller finished), by throw() (how = "throw": the caller raised) or by
\* close() (how = "close": GeneratorExit, the scope was cancelled or dropped).
\* try: yield db / finally: db.close() -- the finally runs on all three.
GetDbFinally(sess, db, how) ==
    ByGetDb("close", SessionClose(sess, db))

\* A plausible slip: an except clause around the yield swallows the caller's
\* exception, and the generator returns.
GetDbOutcomeSwallows(how, exc) ==
    CASE how = "next"  -> [exit |-> "returned", exc |-> "none"]
      [] how = "throw" -> [exit |-> "returned", exc |-> "none"]
      [] how = "close" -> [exit |-> "closed", exc |-> "none"]

\* What leaves the generator once the finally block has run.
GetDbOutcome(how, exc) ==
    CASE how = "next"  -> [exit |-> "returned", exc |-> "none"]
      [] how = "throw" -> [exit |-> "raised", exc |-> exc]
      [] how = "close" -> [exit |-> "closed", exc |-> "none"]

\* `thrown` is the exception the caller raised inside the scope, `exit` and
\* `exc` how the generator ended and the exception that left it.
IdleScope ==
    [pc |-> "idle", db |-> 0, thrown |-> "none", exit |-> "none", exc |-> "none"]

\* get_db() is called, app.db.session being imported: a generator object, no
\* line of the body has run.
GetDbCall(s) ==
    /\ engine.created
    /\ scopes[s].pc = "idle"
    /\ scopes' = [scopes EXCEPT ![s].pc = "created"]
    /\ UNCHANGED <<sessions, committed>>
    /\ OnlyDb

\* A plausible slip: one module-level session handed to every scope.
GetDbYieldSharedSession(s) ==
    /\ scopes[s].pc = "created"
    /\ sessions' = IF sessions = <<>> THEN <<SessionLocal>> ELSE sessions
    /\ scopes' = [scopes EXCEPT ![s].pc = "yielded", ![s].db = 1]
    /\ UNCHANGED committed
    /\ OnlyDb

\* The first next(): db = SessionLocal(); try: yield db.
GetDbYield(s) ==
    /\ scopes[s].pc = "created"
    /\ sessions' = Append(sessions, SessionLocal)
    /\ scopes' = [scopes EXCEPT ![s].pc = "yielded", ![s].db = Len(sessions) + 1]
    /\ UNCHANGED committed
    /\ OnlyDb

\* A generator closed before its first next(): the body never runs.
GetDbCloseUnstarted(s) ==
    /\ scopes[s].pc = "created"
    /\ scopes' = [scopes EXCEPT ![s].pc = "done", ![s].exit = "closed"]
    /\ UNCHANGED <<sessions, committed>>
    /\ OnlyDb

\* The generator resumed after the yield: the finally block, then the exit.
\* Gives the sessions, the database and the scopes as the resume leaves them.
GetDbExit(s, how, exc) ==
    LET res == GetDbFinally(sessions[scopes[s].db], committed, how)
    IN  [sessions |-> [sessions EXCEPT ![scopes[s].db] = res.sess],
         committed |-> res.db,
         scopes |-> [scopes EXCEPT ![s] =
                       [pc |-> "done", db |-> @.db, thrown |-> exc,
                        exit |-> GetDbOutcome(how, exc).exit,
                        exc |-> GetDbOutcome(how, exc).exc]]]

\* The caller finishes: the framework calls next() once more.
CallerReturns(s) ==
    /\ scopes[s].pc = "yielded"
    /\ LET after == GetDbExit(s, "next", "none")
       IN  /\ sessions' = after.sessions
           /\ committed' = after.committed
           /\ scopes' = after.scopes
    /\ OnlyDb

\* The caller raises: the framework throws the exception into the generator.
CallerRaises(s) ==
    /\ scopes[s].pc = "yielded"
    /\ \E exc \in CallerExceptions :
          LET after == GetDbExit(s, "throw", exc)
          IN  /\ sessions' = after.sessions
              /\ committed' = after.committed
              /\ scopes' = after.scopes
    /\ OnlyDb

\* The request is cancelled or the generator dropped: close() raises
\* GeneratorExit at the yield.
ScopeCancelled(s) ==
    /\ scopes[s].pc = "yielded"
    /\ LET after == GetDbExit(s, "close", "none")
       IN  /\ sessions' = after.sessions
           /\ committed' = after.committed
           /\ scopes' = after.scopes
    /\ OnlyDb

\* The caller's own use of the session it was handed.
CallerAdd(s) ==
    /\ scopes[s].pc = "yielded"
    /\ \E r \in Rows :
          /\ r \notin sessions[scopes[s].db].pending
          /\ r \notin committed
          /\ sessions' = [sessions EXCEPT ![scopes[s].db].pending = @ \cup {r}]
    /\ UNCHANGED <<scopes, committed>>
    /\ OnlyDb

CallerCommit(s) ==
    /\ scopes[s].pc = "yielded"
    /\ sessions[scopes[s].db].pending # {}
    /\ LET res == SessionCommit(sessions[scopes[s].db], committed)
       IN  /\ sessions' = [sessions EXCEPT ![scopes[s].db] = res.sess]
           /\ committed' = res.db
    /\ UNCHANGED scopes
    /\ OnlyDb

CallerRollback(s) ==
    /\ scopes[s].pc = "yielded"
    /\ sessions[scopes[s].db].pending # {}
    /\ LET res == SessionRollback(sessions[scopes[s].db], committed)
       IN  /\ sessions' = [sessions EXCEPT ![scopes[s].db] = res.sess]
           /\ committed' = res.db
    /\ UNCHANGED scopes
    /\ OnlyDb

-----------------------------------------------------------------------------
(* app/core/exceptions.py: the taxonomy *)

HTTP_400_BAD_REQUEST == 400
HTTP_401_UNAUTHORIZED == 401
HTTP_403_FORBIDDEN == 403
HTTP_404_NOT_FOUND == 404
HTTP_409_CONFLICT == 409
HTTP_500_INTERNAL_SERVER_ERROR == 500

\* An argument left out of a call, or given.
Omitted == [given |-> FALSE]
Given(x) == [given |-> TRUE, v |-> x]

\* Optional[Dict[str, Any]]: None, or a dict as its set of <<key, value>> items.
PyNone == [isNone |-> TRUE]
Dict(items) == [isNone |-> FALSE, items |-> items]
EmptyDict == Dict({})

\* Python truthiness of an Optional[Dict]: None and the empty dict are falsy.
Truthy(d) == ~d.isNone /\ d.items # {}

\* A plausible slip: the details argument is not stored.
BaseAPIExceptionDropsDetails(cls, message, status_code, details) ==
    [cls |-> cls, typed |-> TRUE, message |-> message,
     status_code |-> status_code, details |-> EmptyDict, text |-> message]

\* BaseAPIException.__init__(message, status_code, details), for an object of
\* class cls: self.details = details or {}; str(exc) is the message.
BaseAPIException(cls, message, status_code, details) ==
    [cls |-> cls, typed |-> TRUE, message |-> message,
     status_code |-> status_code,
     details |-> IF Truthy(details) THEN details ELSE EmptyDict,
     text |-> message]

\* A parameter's value: the argument when given, the default otherwise.
Arg(a, default) == IF a.given THEN a.v ELSE default

NotFoundException(message, details) ==
    BaseAPIException("NotFoundException", Arg(message, "Resource not found"),
                     HTTP_404_NOT_FOUND, Arg(details, PyNone))

ValidationException(message, details) ==
    BaseAPIException("ValidationException", Arg(message, "Validation error"),
                     HTTP_400_BAD_REQUEST, Arg(details, PyNone))

\* A plausible slip: 401 and 403 swapped.
UnauthorizedExceptionAs403(message, details) ==
    BaseAPIException("UnauthorizedException",
                     Arg(message, "Authentication required"),
                     HTTP_403_FORBIDDEN, Arg(details, PyNone))

UnauthorizedException(message, details) ==
    BaseAPIException("UnauthorizedException",
                     Arg(message, "Authentication required"),
                     HTTP_401_UNAUTHORIZED, Arg(details, PyNone))

ForbiddenException(message, details) ==
    BaseAPIException("ForbiddenException", Arg(message, "Permission denied"),
                     HTTP_403_FORBIDDEN, Arg(details, PyNone))

ConflictException(message, details) ==
    BaseAPIException("ConflictException", Arg(message, "Resource conflict"),
                     HTTP_409_CONFLICT, Arg(details, PyNone))

InternalServerException(message, details) ==
    BaseAPIException("InternalServerException",
                     Arg(message, "Internal server error"),
                     HTTP_500_INTERNAL_SERVER_ERROR, Arg(details, PyNone))

Subtypes == {"NotFoundException", "ValidationException", "UnauthorizedException",
             "ForbiddenException", "ConflictException", "InternalServerException"}

\* cls(message, details) for one of the six subtypes.
Construct(cls, message, details) ==
    CASE cls = "NotFoundException" -> NotFoundException(message, details)
      [] cls = "ValidationException" -> ValidationException(message, details)
      [] cls = "UnauthorizedException" -> UnauthorizedException(message, details)
      [] cls = "ForbiddenException" -> ForbiddenException(message, details)
      [] cls = "ConflictException" -> ConflictException(message, details)
      [] cls = "InternalServerException" -> InternalServerException(message, details)

\* An exception outside the taxonomy: its class and its text, str(exc).
OtherException(cls, text) == [cls |-> cls, typed |-> FALSE, text |-> text]

-----------------------------------------------------------------------------
(* app/core/exceptions.py: the two boundary handlers *)

\* A plausible slip: the handler answers every typed error with 500.
BaseApiExceptionHandlerAlways500(path, exc, now) ==
    [status_code |-> HTTP_500_INTERNAL_SERVER_ERROR,
     error |-> [message |-> exc.message, details |-> exc.details,
                path |-> path, timestamp |-> now]]

\* base_api_exception_handler(request, exc): request.url.path is `path`,
\* datetime.utcnow().isoformat() is `now`.
base_api_exception_handler(path, exc, now) ==
    [status_code |-> exc.status_code,
     error |-> [message |-> exc.message, details |-> exc.details,
                path |-> path, timestamp |-> now]]

\* A plausible slip: the exception's text is put in the message.
GenericHandlerLeaksText(path, exc, now) ==
    [status_code |-> HTTP_500_INTERNAL_SERVER_ERROR,
     error |-> [message |-> exc.text, details |-> EmptyDict,
                path |-> path, timestamp |-> now]]

\* generic_exception_handler(request, exc): the exception goes to the log
\* only; the response is fixed but for the path and the time.
generic_exception_handler(path, exc, now) ==
    [status_code |-> HTTP_500_INTERNAL_SERVER_ERROR,
     error |-> [message |-> "An unexpected error occurred",
                details |-> EmptyDict,
                path |-> path, timestamp |-> now]]

RequestIds == 1..MaxRequests

\* A step of the exception layer leaves the other components alone.
OnlyErr == UNCHANGED <<sessions, scopes, committed, environ, instances, cache,
                       settings, lastCall, engine, lastInitDb, fnIn, fnOut>>

\* What application code passes, and where requests fail.
Messages == {"", "User 7 not found"}
DetailsValues == {PyNone, EmptyDict,
                  Dict({<<"available", 3>>, <<"requested", 5>>})}
StatusCodes == {HTTP_404_NOT_FOUND, 418, 429}
OtherClasses == {"ValueError", "KeyError"}
OtherTexts == {"division by zero", "password=hunter2"}
Paths == {"/api/v1/users/7", "/api/v1/items"}
Timestamps == {"2024-01-20T10:30:00", "2024-01-20T10:30:01"}

MessageArgs == {Omitted} \cup {Given(m) : m \in Messages}
DetailsArgs == {Omitted} \cup {Given(d) : d \in DetailsValues}
StatusArgs == {Omitted} \cup {Given(c) : c \in StatusCodes}

IdleRequest == [pc |-> "idle"]

\* A request that failed with exc, constructed from args.
Raised(path, exc, args) ==
    [pc |-> "raised", path |-> path, exc |-> exc, args |-> args]

\* Application code raises one of the six typed errors.
RaiseTyped(r) ==
    /\ requests[r].pc = "idle"
    /\ \E cls \in Subtypes, m \in MessageArgs, d \in DetailsArgs, path \in Paths :
          requests' = [requests EXCEPT ![r] =
              Raised(path, Construct(cls, m, d),
                     [message |-> m, status_code |-> Omitted, details |-> d])]
    /\ UNCHANGED heap
    /\ OnlyErr

\* Application code raises the base type itself; status_code defaults to 500.
RaiseBase(r) ==
    /\ requests[r].pc = "idle"
    /\ \E m \in Messages, c \in StatusArgs, d \in DetailsArgs, path \in Paths :
          requests' = [requests EXCEPT ![r] =
              Raised(path,
                     BaseAPIException("BaseAPIException", m,
                                      Arg(c, HTTP_500_INTERNAL_SERVER_ERROR),
                                      Arg(d, PyNone)),
                     [message |-> Given(m), status_code |-> c, details |-> d])]
    /\ UNCHANGED heap
    /\ OnlyErr

\* Something else fails inside the request.
RaiseOther(r) ==
    /\ requests[r].pc = "idle"
    /\ \E cls \in OtherClasses, text \in OtherTexts, path \in Paths :
          requests' = [requests EXCEPT ![r] =
              Raised(path, OtherException(cls, text),
                     [message |-> Given(text), status_code |-> Omitted,
                      details |-> Omitted])]
    /\ UNCHANGED heap
    /\ OnlyErr

Respond(r, handler, response) ==
    requests' = [requests EXCEPT ![r] =
                   [pc |-> "responded", path |-> @.path, exc |-> @.exc,
                    args |-> @.args, handler |-> handler, response |-> response]]

\* The handler registered for BaseAPIException answers a typed error.
HandleTyped(r) ==
    /\ requests[r].pc = "raised"
    /\ requests[r].exc.typed
    /\ \E now \in Timestamps :
          Respond(r, "base_api_exception_handler",
                  base_api_exception_handler(requests[r].path, requests[r].exc, now))
    /\ UNCHANGED heap
    /\ OnlyErr

\* The handler registered for Exception answers everything else.
HandleOther(r) ==
    /\ requests[r].pc = "raised"
    /\ ~requests[r].exc.typed
    /\ \E now \in Timestamps :
          Respond(r, "generic_exception_handler",
                  generic_exception_handler(requests[r].path, requests[r].exc, now))
    /\ UNCHANGED heap
    /\ OnlyErr

-----------------------------------------------------------------------------
(* app/core/exceptions.py: the details mapping as an object *)

\* A dict object of the heap: who made it (the caller's code, or the `{}` of
\* BaseAPIException.__init__) and its items. An object is named by its
\* position in the heap; 0 is None.
DictObject(by, items) == [by |-> by, items |-> items]

\* The value a reference names: None, or the dict with the object's items.
Deref(h, ref) == IF ref = 0 THEN PyNone ELSE Dict(h[ref].items)

\* A plausible slip: details={} as the parameter's default, stored as it is,
\* so that every error constructed without details holds the one default dict.
DetailsOrSharedDefault(h, ref) ==
    LET defaults == {i \in 1..Len(h) : h[i].by = "constructor"}
    IN  IF ref # 0 THEN [heap |-> h, ref |-> ref]
        ELSE IF defaults # {}
        THEN [heap |-> h, ref |-> CHOOSE i \in defaults : \A j \in defaults : i <= j]
        ELSE [heap |-> Append(h, DictObject("constructor", {})),
              ref |-> Len(h) + 1]

\* self.details = details or {}: the argument's object when it is a non-empty
\* dict; otherwise the dict display is evaluated, which makes a new object.
\* Gives the heap after the assignment and the object self.details names.
DetailsOr(h, ref) ==
    IF Truthy(Deref(h, ref)) THEN [heap |-> h, ref |-> ref]
    ELSE [heap |-> Append(h, DictObject("constructor", {})), ref |-> Len(h) + 1]

\* What the constructor calls of this part pass and where the requests fail.
ObjectClasses == {"NotFoundException", "ValidationException"}
ObjectPath == "/api/v1/items"
ObjectNow == "2024-01-20T10:30:00"
CallerItems == {{}, {<<"available", 3>>}}
MutationItems == {<<"retry_after", 30>>}

\* The details argument of a constructor call, from the reference passed.
DetailsArg(h, ref) == IF ref = 0 THEN Omitted ELSE Given(Deref(h, ref))

\* A request that failed with a typed error whose details attribute names
\* the object `ref` of heap h; argRef is the object passed, 0 when none.
RaisedObject(h, cls, argRef, ref) ==
    [pc |-> "raised", path |-> ObjectPath,
     exc |-> Construct(cls, Omitted, DetailsArg(h, argRef)),
     args |-> [message |-> Omitted, status_code |-> Omitted,
               details |-> DetailsArg(h, argRef)],
     argRef |-> argRef, ref |-> ref, mutated |-> FALSE]

\* raise cls(): no details argument.
ConstructWithoutDetails(r) ==
    /\ requests[r].pc = "idle"
    /\ \E cls \in ObjectClasses :
          LET made == DetailsOr(heap, 0)
          IN  /\ heap' = made.heap
              /\ requests' = [requests EXCEPT ![r] =
                                RaisedObject(heap, cls, 0, made.ref)]
    /\ OnlyErr

\* raise cls(details=d), d a dict the caller has just made.
ConstructWithNewDict(r) ==
    /\ requests[r].pc = "idle"
    /\ \E cls \in ObjectClasses, items \in CallerItems :
          LET passed == Append(heap, DictObject("caller", items))
              made == DetailsOr(passed, Len(passed))
          IN  /\ heap' = made.heap
              /\ requests' = [requests EXCEPT ![r] =
                                RaisedObject(passed, cls, Len(passed), made.ref)]
    /\ OnlyErr

\* raise cls(details=d), d a dict the caller made earlier and still holds.
ConstructWithHeldDict(r) ==
    /\ requests[r].pc = "idle"
    /\ \E cls \in ObjectClasses :
          \E d \in {i \in 1..Len(heap) : heap[i].by = "caller"} :
              LET made == DetailsOr(heap, d)
              IN  /\ heap' = made.heap
                  /\ requests' = [requests EXCEPT ![r] =
                                    RaisedObject(heap, cls, d, made.ref)]
    /\ OnlyErr

\* exc.details[key] = value, on the error of request r before it is answered.
MutateDetails(r) ==
    /\ requests[r].pc = "raised"
    /\ \E item \in MutationItems :
          /\ item \notin heap[requests[r].ref].items
          /\ heap' = [heap EXCEPT ![requests[r].ref].items = @ \cup {item}]
    /\ requests' = [requests EXCEPT ![r].mutated = TRUE]
    /\ OnlyErr

\* The typed handler answers: exc.details is read at that moment.
HandleObject(r) ==
    /\ requests[r].pc = "raised"
    /\ requests' = [requests EXCEPT ![r] =
          [pc |-> "responded", path |-> @.path, exc |-> @.exc, args |-> @.args,
           argRef |-> @.argRef, ref |-> @.ref, mutated |-> @.mutated,
           handler |-> "base_api_exception_handler",
           response |-> base_api_exception_handler(
                            @.path,
                            [@.exc EXCEPT !.details = Deref(heap, requests[r].ref)],
                            ObjectNow)]]
    /\ UNCHANGED heap
    /\ OnlyErr

-----------------------------------------------------------------------------
(* Python str operations, on strings as sequences of characters *)

UpperCase == <<"A", "B", "C", "D", "E", "F", "G", "H", "I", "J", "K", "L", "M",
               "N", "O", "P", "Q", "R", "S", "T", "U", "V", "W", "X", "Y", "Z">>
LowerCase == <<"a", "b", "c", "d", "e", "f", "g", "h", "i", "j", "k", "l", "m",
               "n", "o", "p", "q", "r", "s", "t", "u", "v", "w", "x", "y", "z">>
Whitespace == {" ", "\t", "\n", "\r"}
Digits == <<"0", "1", "2", "3", "4", "5", "6", "7", "8", "9">>

\* One character of str.lower().
LowerChar(c) ==
    IF \E i \in DOMAIN UpperCase : UpperCase[i] = c
    THEN LowerCase[CHOOSE i \in DOMAIN UpperCase : UpperCase[i] = c]
    ELSE c

\* str.lower()
Lower(s) == [i \in 1..Len(s) |-> LowerChar(s[i])]

\* str.strip(): leading and trailing whitespace removed.
Strip(s) ==
    LET kept == {i \in 1..Len(s) : s[i] \notin Whitespace}
    IN  IF kept = {} THEN <<>>
        ELSE SubSeq(s, CHOOSE i \in kept : \A j \in kept : i <= j,
                       CHOOSE i \in kept : \A j \in kept : i >= j)

\* str.split(sep) for a one-character separator: the pieces, in order.
RECURSIVE Split(_, _)
Split(s, sep) ==
    LET at == {i \in 1..Len(s) : s[i] = sep}
    IN  IF at = {} THEN <<s>>
        ELSE LET i == CHOOSE k \in at : \A j \in at : k <= j
             IN  <<SubSeq(s, 1, i - 1)>> \o Split(SubSeq(s, i + 1, Len(s)), sep)

\* str.startswith(prefix)
StartsWith(s, prefix) ==
    Len(s) >= Len(prefix) /\ SubSeq(s, 1, Len(prefix)) = prefix

\* `sub in s`
Contains(sub, s) ==
    \E i \in 1..(Len(s) - Len(sub) + 1) : SubSeq(s, i, i + Len(sub) - 1) = sub

\* Python values: a str, an int, a list of values.
PyStr(s) == [str |-> s]
PyInt(n) == [int |-> n]
PyList(l) == [list |-> l]
IsStr(x) == DOMAIN x = {"str"}
IsList(x) == DOMAIN x = {"list"}

\* A call that returned x, and a call that raised.
Ok(x) == [ok |-> TRUE, val |-> x]
Raises(err) == [ok |-> FALSE, err |-> err]

-----------------------------------------------------------------------------
(* json.loads, for arrays of string literals (without escapes) and integers *)

\* The first position from i on that holds no JSON whitespace.
RECURSIVE SkipWs(_, _)
SkipWs(s, i) ==
    IF i <= Len(s) /\ s[i] \in Whitespace THEN SkipWs(s, i + 1) ELSE i

\* The position after the run of digits starting at i.
RECURSIVE DigitsEnd(_, _)
DigitsEnd(s, i) ==
    IF i <= Len(s) /\ (\E d \in DOMAIN Digits : Digits[d] = s[i])
    THEN DigitsEnd(s, i + 1) ELSE i

DigitValue(c) == (CHOOSE d \in DOMAIN Digits : Digits[d] = c) - 1

RECURSIVE Number(_)
Number(ds) ==
    IF ds = <<>> THEN 0
    ELSE 10 * Number(SubSeq(ds, 1, Len(ds) - 1)) + DigitValue(ds[Len(ds)])

\* The value starting at position i: [ok, val, next], or [ok |-> FALSE].
JsonValue(s, i) ==
    IF i > Len(s) THEN [ok |-> FALSE]
    ELSE IF s[i] = "\""
    THEN LET closing == {j \in (i + 1)..Len(s) : s[j] = "\""}
         IN  IF closing = {} THEN [ok |-> FALSE]
             ELSE LET j == CHOOSE k \in closing : \A m \in closing : k <= m
                  IN  [ok |-> TRUE, val |-> PyStr(SubSeq(s, i + 1, j - 1)),
                       next |-> j + 1]
    ELSE IF s[i] = "0"
    THEN [ok |-> TRUE, val |-> PyInt(0), next |-> i + 1]
    ELSE IF \E d \in DOMAIN Digits : Digits[d] = s[i]
    THEN [ok |-> TRUE, val |-> PyInt(Number(SubSeq(s, i, DigitsEnd(s, i) - 1))),
          next |-> DigitsEnd(s, i)]
    ELSE [ok |-> FALSE]

\* The elements from position i on (a value starts there), after `acc`.
RECURSIVE JsonElements(_, _, _)
JsonElements(s, i, acc) ==
    LET v == JsonValue(s, i)
    IN  IF ~v.ok THEN Raises("JSONDecodeError")
        ELSE LET k == SkipWs(s, v.next)
             IN  IF k > Len(s) THEN Raises("JSONDecodeError")
                 ELSE IF s[k] = ","
                 THEN JsonElements(s, SkipWs(s, k + 1), Append(acc, v.val))
                 ELSE IF s[k] = "]"
                 THEN IF SkipWs(s, k + 1) <= Len(s)
                      THEN Raises("JSONDecodeError")
                      ELSE Ok(PyList(Append(acc, v.val)))
                 ELSE Raises("JSONDecodeError")

\* json.loads(s) for a text whose first character is "[".
json_loads(s) ==
    LET i == SkipWs(s, 2)
    IN  IF i > Len(s) THEN Raises("JSONDecodeError")
        ELSE IF s[i] = "]"
        THEN IF SkipWs(s, i + 1) <= Len(s) THEN Raises("JSONDecodeError")
             ELSE Ok(PyList(<<>>))
        ELSE JsonElements(s, i, <<>>)

-----------------------------------------------------------------------------
(* app/core/config.py: Settings and its validators *)

\* allowed = {"development", "staging", "production"}
AllowedEnvironments ==
    {<<"d", "e", "v", "e", "l", "o", "p", "m", "e", "n", "t">>,
     <<"s", "t", "a", "g", "i", "n", "g">>,
     <<"p", "r", "o", "d", "u", "c", "t", "i", "o", "n">>}

\* A plausible slip: the value is checked in lowercase but returned as given.
ValidateEnvironmentKeepsCase(v) ==
    IF Lower(v) \notin AllowedEnvironments THEN Raises("ValueError") ELSE Ok(v)

\* Settings.validate_environment(v)
validate_environment(v) ==
    IF Lower(v) \notin AllowedEnvironments THEN Raises("ValueError")
    ELSE Ok(Lower(v))

\* [origin.strip() for origin in v.split(",")]
SplitOrigins(s) ==
    LET parts == Split(s, ",")
    IN  PyList([i \in 1..Len(parts) |-> PyStr(Strip(parts[i]))])

\* A plausible slip: the pieces are not stripped.
AssembleCorsOriginsNoStrip(v) ==
    IF IsStr(v)
    THEN IF StartsWith(v.str, <<"[">>) THEN json_loads(v.str)
         ELSE LET parts == Split(v.str, ",")
              IN  Ok(PyList([i \in 1..Len(parts) |-> PyStr(parts[i])]))
    ELSE Ok(v)

\* Settings.assemble_cors_origins(v), the mode="before" validator.
assemble_cors_origins(v) ==
    IF IsStr(v)
    THEN IF StartsWith(v.str, <<"[">>) THEN json_loads(v.str)
         ELSE Ok(SplitOrigins(v.str))
    ELSE Ok(v)

\* backend_cors_origins: List[str] -- the field's own validation of what the
\* validator returned: a list whose elements are all str, or an error.
ListOfStr(v) ==
    IF IsList(v) /\ \A i \in 1..Len(v.list) : IsStr(v.list[i])
    THEN Ok(v) ELSE Raises("ValidationError")

\* debug: bool, db_echo: bool -- the values the environment gives them here.
ParseBool(raw) ==
    CASE raw \in {"true", "1"} -> TRUE
      [] raw \in {"false", "0"} -> FALSE

\* The defaults of the fields.
DefaultEnvironment ==
    <<"d", "e", "v", "e", "l", "o", "p", "m", "e", "n", "t">>
DefaultCorsOrigins ==
    PyList(<<PyStr(<<"h", "t", "t", "p", ":", "/", "/", "l", "o", "c", "a",
                     "l", "h", "o", "s", "t", ":", "3", "0", "0", "0">>),
             PyStr(<<"h", "t", "t", "p", ":", "/", "/", "l", "o", "c", "a",
                     "l", "h", "o", "s", "t", ":", "8", "0", "0", "0">>)>>)
DefaultDatabaseUrl ==
    <<"s", "q", "l", "i", "t", "e", ":", "/", "/", "/", ".", "/", "a", "p",
      "p", ".", "d", "b">>

\* Settings(**src): each field from its source value when there is one, from
\* its default otherwise; the validators run on the source values.
Settings(src) ==
    LET env == IF src.environment.given
               THEN validate_environment(src.environment.v)
               ELSE Ok(DefaultEnvironment)
        pre == IF src.backend_cors_origins.given
               THEN assemble_cors_origins(src.backend_cors_origins.v)
               ELSE Ok(DefaultCorsOrigins)
        cors == IF pre.ok THEN ListOfStr(pre.val) ELSE pre
    IN  IF ~env.ok \/ ~cors.ok THEN Raises("ValidationError")
        ELSE Ok([environment |-> env.val,
                 backend_cors_origins |-> cors.val,
                 database_url |-> Arg(src.database_url, DefaultDatabaseUrl),
                 debug |-> IF src.debug.given THEN ParseBool(src.debug.v) ELSE TRUE,
                 db_echo |-> IF src.db_echo.given THEN ParseBool(src.db_echo.v)
                             ELSE FALSE])

\* Settings(): the sources are the environment variables. BACKEND_CORS_ORIGINS
\* is left unset here; the CORS validator is exercised by direct calls below.
FromEnviron(env) ==
    [environment |-> env.ENVIRONMENT, backend_cors_origins |-> Omitted,
     database_url |-> env.DATABASE_URL, debug |-> env.DEBUG,
     db_echo |-> env.DB_ECHO]

-----------------------------------------------------------------------------
(* app/core/config.py: get_settings and the module-level settings *)

\* A plausible slip: the @lru_cache decorator is missing.
GetSettingsUncached(c, insts, env) ==
    LET made == Settings(FromEnviron(env))
    IN  IF made.ok
        THEN [cache |-> c, instances |-> Append(insts, made.val),
              result |-> Ok(Len(insts) + 1)]
        ELSE [cache |-> c, instances |-> insts, result |-> made]

\* A plausible slip: a failed construction is recovered by constructing with
\* the default environment, and that instance is cached.
GetSettingsFallsBackToDefault(c, insts, env) ==
    IF c # 0 THEN [cache |-> c, instances |-> insts, result |-> Ok(c)]
    ELSE LET made == Settings(FromEnviron(env))
             fallback == Settings(FromEnviron([env EXCEPT !.ENVIRONMENT = Omitted]))
         IN  [cache |-> Len(insts) + 1,
              instances |-> Append(insts, IF made.ok THEN made.val ELSE fallback.val),
              result |-> Ok(Len(insts) + 1)]

\* get_settings() under @lru_cache: the cached instance when there is one;
\* otherwise Settings() is constructed and cached, and an exception it raises
\* is cached nowhere. Instances are named by their position in `insts`.
get_settings(c, insts, env) ==
    IF c # 0 THEN [cache |-> c, instances |-> insts, result |-> Ok(c)]
    ELSE LET made == Settings(FromEnviron(env))
         IN  IF made.ok
             THEN [cache |-> Len(insts) + 1, instances |-> Append(insts, made.val),
                   result |-> Ok(Len(insts) + 1)]
             ELSE [cache |-> c, instances |-> insts, result |-> made]

\* What a get_settings() call did, for the record: the instance it returned,
\* whether Settings() on the environment of that moment would have the same
\* field values, and whether the call before this one raised; or the error it
\* raised. `prev` is the record of the call before.
CallRecord(res, insts, env, prev) ==
    IF res.ok
    THEN [kind |-> "returned", id |-> res.val,
          current |-> Settings(FromEnviron(env)) = Ok(insts[res.val]),
          afterRaise |-> prev.kind = "raised"]
    ELSE [kind |-> "raised", err |-> res.err, environment |-> env.ENVIRONMENT]

\* {"check_same_thread": False} if "sqlite" in settings.database_url else {}
ConnectArgs(url) ==
    IF Contains(<<"s", "q", "l", "i", "t", "e">>, url)
    THEN {<<"check_same_thread", FALSE>>} ELSE {}

\* A plausible slip: SQL is echoed only when both flags are set.
CreateEngineEchoNeedsBoth(s) ==
    [created |-> TRUE, url |-> s.database_url,
     connect_args |-> ConnectArgs(s.database_url),
     echo |-> s.db_echo /\ s.debug]

\* create_engine(settings.database_url, connect_args=..., echo=...)
create_engine(s) ==
    [created |-> TRUE, url |-> s.database_url,
     connect_args |-> ConnectArgs(s.database_url),
     echo |-> s.db_echo \/ s.debug]

\* A step of the settings provider leaves the other components alone.
OnlyCfg == UNCHANGED <<sessions, scopes, committed, requests, heap, fnIn, fnOut>>

\* The values the environment variables take.
EnvironmentValues ==
    {<<"P", "R", "O", "D", "U", "C", "T", "I", "O", "N">>,
     <<"S", "t", "a", "g", "i", "n", "g">>,
     <<"s", "a", "n", "d", "b", "o", "x">>}
DatabaseUrlValues ==
    {<<"p", "o", "s", "t", "g", "r", "e", "s", "q", "l", ":", "/", "/", "u",
       "s", "e", "r", ":", "p", "a", "s", "s", "w", "o", "r", "d", "@", "l",
       "o", "c", "a", "l", "h", "o", "s", "t", ":", "5", "4", "3", "2", "/",
       "d", "b", "n", "a", "m", "e">>,
     <<"p", "o", "s", "t", "g", "r", "e", "s", "q", "l", ":", "/", "/", "a",
       "p", "p", ":", "p", "w", "@", "d", "b", ":", "5", "4", "3", "2", "/",
       "s", "q", "l", "i", "t", "e", "_", "i", "m", "p", "o", "r", "t">>,
     <<"m", "y", "s", "q", "l", "+", "p", "y", "m", "y", "s", "q", "l", ":",
       "/", "/", "s", "q", "l", "i", "t", "e", ":", "p", "w", "@", "d", "b",
       "/", "s", "h", "o", "p">>}
EnvValues(key) ==
    CASE key = "ENVIRONMENT" -> {Omitted} \cup {Given(v) : v \in EnvironmentValues}
      [] key = "DATABASE_URL" -> {Omitted} \cup {Given(v) : v \in DatabaseUrlValues}
      [] key = "DEBUG" -> {Omitted, Given("false")}
      [] key = "DB_ECHO" -> {Omitted, Given("true")}
EnvKeys == {"ENVIRONMENT", "DATABASE_URL", "DEBUG", "DB_ECHO"}

\* app.core.config is imported: settings = get_settings(). When Settings()
\* raises, the import fails and the module is not loaded.
ImportConfig ==
    /\ settings = 0
    /\ LET call == get_settings(cache, instances, environ)
       IN  /\ instances' = call.instances
           /\ cache' = IF call.result.ok THEN call.cache ELSE 0
           /\ settings' = IF call.result.ok THEN call.result.val ELSE 0
           /\ lastCall' = CallRecord(call.result, call.instances, environ, lastCall)
    /\ UNCHANGED <<environ, engine, lastInitDb>>
    /\ OnlyCfg

\* Any later get_settings() call.
GetSettingsCall ==
    /\ settings # 0
    /\ cache # 0 \/ Len(instances) < MaxInstances
    /\ LET call == get_settings(cache, instances, environ)
       IN  /\ instances' = call.instances
           /\ cache' = call.cache
           /\ lastCall' = CallRecord(call.result, call.instances, environ, lastCall)
    /\ UNCHANGED <<environ, settings, engine, lastInitDb>>
    /\ OnlyCfg

\* An environment variable is set, changed or unset.
SetEnv ==
    /\ \E k \in EnvKeys :
          \E v \in EnvValues(k) :
              /\ environ[k] # v
              /\ environ' = [environ EXCEPT ![k] = v]
    /\ UNCHANGED <<instances, cache, settings, lastCall, engine, lastInitDb>>
    /\ OnlyCfg

\* app.db.session is imported: the engine is created from `settings`.
ImportSession ==
    /\ settings # 0
    /\ ~engine.created
    /\ engine' = create_engine(instances[settings])
    /\ UNCHANGED <<environ, instances, cache, settings, lastCall, lastInitDb>>
    /\ OnlyCfg

\* get_settings.cache_clear(): the memoization is cleared explicitly.
CacheClear ==
    /\ settings # 0
    /\ cache # 0
    /\ cache' = 0
    /\ UNCHANGED <<environ, instances, settings, lastCall, engine, lastInitDb>>
    /\ OnlyCfg

\* The connection string of the .env example.
PostgresUrl ==
    <<"p", "o", "s", "t", "g", "r", "e", "s", "q", "l", ":", "/", "/", "u",
      "s", "e", "r", ":", "p", "a", "s", "s", "w", "o", "r", "d", "@", "l",
      "o", "c", "a", "l", "h", "o", "s", "t", ":", "5", "4", "3", "2", "/",
      "d", "b", "n", "a", "m", "e">>

\* DATABASE_URL alone is set to the example's connection string, or unset.
SetDatabaseUrl ==
    /\ \E v \in {Omitted, Given(PostgresUrl)} :
          /\ environ.DATABASE_URL # v
          /\ environ' = [environ EXCEPT !.DATABASE_URL = v]
    /\ UNCHANGED <<instances, cache, settings, lastCall, engine, lastInitDb>>
    /\ OnlyCfg

\* ENVIRONMENT alone is set, changed or unset.
SetEnvironment ==
    /\ \E v \in EnvValues("ENVIRONMENT") :
          /\ environ.ENVIRONMENT # v
          /\ environ' = [environ EXCEPT !.ENVIRONMENT = v]
    /\ UNCHANGED <<instances, cache, settings, lastCall, engine, lastInitDb>>
    /\ OnlyCfg

\* init_db(): Base.metadata.create_all(bind=engine), on the module-level
\* engine.
init_db ==
    /\ engine.created
    /\ lastInitDb' = [called |-> TRUE, bind |-> engine]
    /\ UNCHANGED <<environ, instances, cache, settings, lastCall, engine>>
    /\ OnlyCfg

-----------------------------------------------------------------------------
(* Direct calls: a validator on a raw value, Settings on keyword arguments *)

\* The values validate_environment is called with.
EnvironmentInputs ==
    {<<"d", "e", "v", "e", "l", "o", "p", "m", "e", "n", "t">>,
     <<"s", "t", "a", "g", "i", "n", "g">>,
     <<"p", "r", "o", "d", "u", "c", "t", "i", "o", "n">>,
     <<"P", "R", "O", "D", "U", "C", "T", "I", "O", "N">>,
     <<"S", "t", "a", "g", "i", "n", "g">>,
     <<"D", "e", "V", "e", "L", "o", "P", "m", "E", "n", "T">>,
     <<"s", "a", "n", "d", "b", "o", "x">>,
     <<"p", "r", "o", "d">>,
     <<>>,
     <<"p", "r", "o", "d", "u", "c", "t", "i", "o", "n", " ">>,
     <<" ", "s", "t", "a", "g", "i", "n", "g">>,
     <<"P", "R", "O", "D">>,
     <<"t", "e", "s", "t">>}

\* The raw values assemble_cors_origins is called with: strings and lists.
CorsInputs ==
    {PyStr(<<"h", "t", "t", "p", ":", "/", "/", "a", ".", "c", "o", "m", ",",
             "h", "t", "t", "p", ":", "/", "/", "b", ".", "c", "o", "m">>),
     PyStr(<<"[", "\"", "h", "t", "t", "p", ":", "/", "/", "a", ".", "c",
             "o", "m", "\"", "]">>),
     PyStr(<<" ", "h", "t", "t", "p", ":", "/", "/", "a", ".", "c", "o", "m",
             " ", ",", " ", "h", "t", "t", "p", ":", "/", "/", "b", ".", "c",
             "o", "m", "\t">>),
     PyStr(<<"h", "t", "t", "p", ":", "/", "/", "a", ".", "c", "o", "m">>),
     PyStr(<<>>),
     PyStr(<<"a", ",", ",", "b">>),
     PyStr(<<"[", "\"", "h", "t", "t", "p", ":", "/", "/", "a", ".", "c",
             "o", "m", "\"", ",", " ", "\"", "h", "t", "t", "p", ":", "/",
             "/", "b", ".", "c", "o", "m", "\"", "]">>),
     PyStr(<<"[", "]">>),
     PyStr(<<"[", " ", "]">>),
     PyStr(<<"[", "1", ",", " ", "2", "]">>),
     PyStr(<<"[", "\"", "a", "\"", ",", " ", "7", "]">>),
     PyStr(<<"[", "b", "a", "d">>),
     PyStr(<<"[", "\"", "a", "\"", ",", "]">>),
     PyStr(<<"[", "\"", "a", "\"", "]", " ", "x">>),
     PyStr(<<" ", "[", "\"", "a", "\"", "]">>),
     PyStr(<<"[", "\"", "a", "\"", " ", "\"", "b", "\"", "]">>),
     PyStr(<<"[", "0", "1", "]">>),
     PyStr(<<"[">>),
     PyStr(<<"[", "\"", "a", ",", "b", "\"", "]">>),
     PyList(<<PyStr(<<"h", "t", "t", "p", ":", "/", "/", "a", ".", "c", "o",
                       "m">>)>>),
     PyList(<<>>),
     PyList(<<PyStr(<<" ", "x", " ">>),
              PyStr(<<"y">>)>>)}

Calls ==
    {[fn |-> "validate_environment", v |-> v] : v \in EnvironmentInputs}
    \cup {[fn |-> "assemble_cors_origins", raw |-> r] : r \in CorsInputs}
    \cup {[fn |-> "Settings", environment |-> e, backend_cors_origins |-> c] :
            e \in {Omitted} \cup {Given(v) : v \in EnvironmentInputs},
            c \in {Omitted} \cup {Given(r) : r \in CorsInputs}}

\* A direct call leaves the other components alone.
OnlyFn == UNCHANGED <<sessions, scopes, committed, requests, heap, environ,
                      instances, cache, settings, lastCall, engine, lastInitDb>>

NotCalled == [called |-> FALSE]

CallValidateEnvironment ==
    /\ fnOut = NotCalled
    /\ fnIn.fn = "validate_environment"
    /\ fnOut' = validate_environment(fnIn.v)
    /\ UNCHANGED fnIn
    /\ OnlyFn

CallAssembleCorsOrigins ==
    /\ fnOut = NotCalled
    /\ fnIn.fn = "assemble_cors_origins"
    /\ fnOut' = assemble_cors_origins(fnIn.raw)
    /\ UNCHANGED fnIn
    /\ OnlyFn

CallSettings ==
    /\ fnOut = NotCalled
    /\ fnIn.fn = "Settings"
    /\ fnOut' = Settings([environment |-> fnIn.environment,
                          backend_cors_origins |-> fnIn.backend_cors_origins,
                          database_url |-> Omitted, debug |-> Omitted,
                          db_echo |-> Omitted])
    /\ UNCHANGED fnIn
    /\ OnlyFn

-----------------------------------------------------------------------------
(* Initial states *)

\* The process has started: no get_db() generator, no request, no environment
\* variable set, app.core.config and app.db.session not imported yet, no
\* direct call.
Init ==
    /\ sessions = <<>>
    /\ scopes = [s \in ScopeIds |-> IdleScope]
    /\ committed = {}
    /\ requests = [r \in RequestIds |-> IdleRequest]
    /\ heap = <<>>
    /\ environ = [k \in EnvKeys |-> Omitted]
    /\ instances = <<>>
    /\ cache = 0
    /\ settings = 0
    /\ lastCall = [kind |-> "none"]
    /\ engine = [created |-> FALSE]
    /\ lastInitDb = NotCalled
    /\ fnIn = NotCalled
    /\ fnOut = NotCalled

\* The same, with the direct call to make drawn from Calls.
InitFn ==
    /\ sessions = <<>>
    /\ scopes = [s \in ScopeIds |-> IdleScope]
    /\ committed = {}
    /\ requests = [r \in RequestIds |-> IdleRequest]
    /\ heap = <<>>
    /\ environ = [k \in EnvKeys |-> Omitted]
    /\ instances = <<>>
    /\ cache = 0
    /\ settings = 0
    /\ lastCall = [kind |-> "none"]
    /\ engine = [created |-> FALSE]
    /\ lastInitDb = NotCalled
    /\ fnIn \in Calls
    /\ fnOut = NotCalled

\* Both modules imported under an empty environment: settings is the
\* Settings of the defaults, the engine is created from it.
Imported == get_settings(0, <<>>, [k \in EnvKeys |-> Omitted])

InitImported ==
    /\ sessions = <<>>
    /\ scopes = [s \in ScopeIds |-> IdleScope]
    /\ committed = {}
    /\ requests = [r \in RequestIds |-> IdleRequest]
    /\ heap = <<>>
    /\ environ = [k \in EnvKeys |-> Omitted]
    /\ instances = Imported.instances
    /\ cache = Imported.cache
    /\ settings = Imported.result.val
    /\ lastCall = CallRecord(Imported.result, Imported.instances,
                             [k \in EnvKeys |-> Omitted], [kind |-> "none"])
    /\ engine = create_engine(Imported.instances[Imported.result.val])
    /\ lastInitDb = NotCalled
    /\ fnIn = NotCalled
    /\ fnOut = NotCalled

-----------------------------------------------------------------------------
(* The session provider on its own *)

NextDb ==
    \E s \in ScopeIds :
        \/ GetDbCall(s)
        \/ GetDbYield(s)
        \/ GetDbCloseUnstarted(s)
        \/ CallerReturns(s)
        \/ CallerRaises(s)
        \/ ScopeCancelled(s)
        \/ CallerAdd(s)
        \/ CallerCommit(s)
        \/ CallerRollback(s)

SpecDb ==
    /\ InitImported
    /\ [][NextDb]_vars

-----------------------------------------------------------------------------
(* The exception layer, one request at a time; and several requests failing *)
(* with unanticipated errors                                               *)

NextErr ==
    \E r \in {1} :
        \/ RaiseTyped(r)
        \/ RaiseBase(r)
        \/ RaiseOther(r)
        \/ HandleTyped(r)
        \/ HandleOther(r)

SpecErr ==
    /\ Init
    /\ [][NextErr]_vars

NextUnhandled ==
    \E r \in RequestIds :
        \/ RaiseOther(r)
        \/ HandleOther(r)

SpecUnhandled ==
    /\ Init
    /\ [][NextUnhandled]_vars

\* Typed errors and the dict objects their details name.
NextDetails ==
    \E r \in RequestIds :
        \/ ConstructWithoutDetails(r)
        \/ ConstructWithNewDict(r)
        \/ ConstructWithHeldDict(r)
        \/ MutateDetails(r)
        \/ HandleObject(r)

SpecDetails ==
    /\ Init
    /\ [][NextDetails]_vars

-----------------------------------------------------------------------------
(* The settings provider and the engine; and the direct calls *)

NextCfg ==
    \/ ImportConfig
    \/ GetSettingsCall
    \/ SetEnv
    \/ ImportSession

SpecCfg ==
    /\ Init
    /\ [][NextCfg]_vars

\* The engine's lifetime: imports, get_settings() calls and cache clears
\* under a changing DATABASE_URL, get_db() scopes and init_db() calls.
NextEngine ==
    \/ ImportConfig
    \/ ImportSession
    \/ GetSettingsCall
    \/ CacheClear
    \/ SetDatabaseUrl
    \/ init_db
    \/ \E s \in ScopeIds :
          \/ GetDbCall(s)
          \/ GetDbYield(s)
          \/ CallerReturns(s)

SpecEngine ==
    /\ Init
    /\ [][NextEngine]_vars

\* Construction and its failures: imports, get_settings() calls and cache
\* clears under a changing ENVIRONMENT.
NextSettings ==
    \/ ImportConfig
    \/ GetSettingsCall
    \/ CacheClear
    \/ SetEnvironment

SpecSettings ==
    /\ Init
    /\ [][NextSettings]_vars

NextFn ==
    \/ CallValidateEnvironment
    \/ CallAssembleCorsOrigins
    \/ CallSettings

SpecFn ==
    /\ InitFn
    /\ [][NextFn]_vars

-----------------------------------------------------------------------------
(* Claims about the session provider *)

\* Scope s has run past its yield and ended.
Exited(s) == scopes[s].pc = "done" /\ scopes[s].db # 0

\* C1: every get_db() scope that yielded a session and has ended, whether the
\* caller returned, raised, or the scope was cancelled, has its session
\* closed: no finished scope holds an open session.
C1_SessionClosedOnEveryExit ==
    \A s \in ScopeIds : Exited(s) => sessions[scopes[s].db].state = "closed"

\* C1 witness: one scope ended by the caller's exception and another by
\* cancellation, both after yielding a session, both sessions closed.
C1_Witness ==
    \E s, u \in ScopeIds :
        /\ Exited(s) /\ scopes[s].exit = "raised"
        /\ Exited(u) /\ scopes[u].exit = "closed"
        /\ sessions[scopes[s].db].state = "closed"
        /\ sessions[scopes[u].db].state = "closed"

\* C2: a step of get_db (a scope's position changes) never commits and never
\* rolls back: the database's persisted rows are the same before and after,
\* and the only Session operations get_db ever performed are the creation and
\* close(). What the caller left uncommitted is dropped, not persisted.
C2_GetDbNeverCommitsOrRollsBack ==
    [][\A s \in ScopeIds :
          scopes'[s] # scopes[s] =>
              /\ committed' = committed
              /\ \A i \in 1..Len(sessions') :
                    \A k \in 1..Len(sessions'[i].ops) :
                        sessions'[i].ops[k] \in {"SessionLocal", "close"}
              /\ scopes'[s].pc = "done" /\ scopes[s].db # 0 =>
                    sessions'[scopes[s].db].dropped
                        = sessions[scopes[s].db].dropped
                            \cup sessions[scopes[s].db].pending]_vars

\* C2 witness: a scope whose caller returned normally after committing one row
\* and leaving another uncommitted: the first is persisted, the second is not.
C2_Witness ==
    \E s \in ScopeIds :
        /\ Exited(s) /\ scopes[s].exit = "returned"
        /\ committed = {"r1"}
        /\ sessions[scopes[s].db].dropped = {"r2"}
        /\ sessions[scopes[s].db].ops = <<"SessionLocal", "close">>

-----------------------------------------------------------------------------
(* Claims about the exception layer *)

\* The generic handler answered request r.
AnsweredGeneric(r) ==
    requests[r].pc = "responded" /\ requests[r].handler = "generic_exception_handler"

\* The typed handler answered request r.
AnsweredTyped(r) ==
    requests[r].pc = "responded" /\ requests[r].handler = "base_api_exception_handler"

\* C3: for any exception outside the taxonomy, with any text and on any path,
\* the generic handler answers 500 with the message "An unexpected error
\* occurred" and empty details; and two such failures on the same path get the
\* same status, message and details whatever their texts.
C3_GenericResponseIndependentOfText ==
    /\ \A r \in RequestIds :
          AnsweredGeneric(r) =>
              /\ requests[r].response.status_code = 500
              /\ requests[r].response.error.message = "An unexpected error occurred"
              /\ requests[r].response.error.details = EmptyDict
              /\ requests[r].response.error.message # requests[r].exc.text
    /\ \A r, q \in RequestIds :
          (AnsweredGeneric(r) /\ AnsweredGeneric(q)
              /\ requests[r].path = requests[q].path) =>
              /\ requests[r].response.status_code = requests[q].response.status_code
              /\ requests[r].response.error.message = requests[q].response.error.message
              /\ requests[r].response.error.details = requests[q].response.error.details

\* C3 witness: two failures with different texts on the same path, both
\* answered by the generic handler.
C3_Witness ==
    \E r, q \in RequestIds :
        /\ AnsweredGeneric(r) /\ AnsweredGeneric(q)
        /\ requests[r].path = requests[q].path
        /\ requests[r].exc.text = "password=hunter2"
        /\ requests[q].exc.text = "division by zero"
        /\ requests[r].response.error.message = requests[q].response.error.message

\* The status code the taxonomy fixes for each subtype.
FixedStatus(cls) ==
    CASE cls = "NotFoundException" -> 404
      [] cls = "ValidationException" -> 400
      [] cls = "UnauthorizedException" -> 401
      [] cls = "ForbiddenException" -> 403
      [] cls = "ConflictException" -> 409
      [] cls = "InternalServerException" -> 500

\* Request r failed with one of the six subtypes, constructed with a custom
\* message and nothing else.
OnlyCustomMessage(r) ==
    /\ requests[r].pc \in {"raised", "responded"}
    /\ requests[r].exc.cls \in Subtypes
    /\ requests[r].args.message.given
    /\ ~requests[r].args.details.given

\* C4: each of the six subtypes, constructed with only a custom message, has
\* its fixed status code, and the typed handler answers with that status and
\* with the custom message verbatim.
C4_SubtypeStatusAndMessage ==
    \A r \in RequestIds :
        OnlyCustomMessage(r) =>
            /\ requests[r].exc.status_code = FixedStatus(requests[r].exc.cls)
            /\ AnsweredTyped(r) =>
                  /\ requests[r].response.status_code = FixedStatus(requests[r].exc.cls)
                  /\ requests[r].response.error.message = requests[r].args.message.v

\* C4 witness: an UnauthorizedException("User 7 not found") answered with 401.
C4_Witness ==
    \E r \in RequestIds :
        /\ OnlyCustomMessage(r) /\ AnsweredTyped(r)
        /\ requests[r].exc.cls = "UnauthorizedException"
        /\ requests[r].args.message.v = "User 7 not found"
        /\ requests[r].response.status_code = 401
        /\ requests[r].response.error.message = "User 7 not found"

\* The details value the constructor call passed, None when it passed none.
PassedDetails(r) == Arg(requests[r].args.details, PyNone)

\* C5: the envelope of a typed error carries exactly the details passed at
\* construction, and the empty mapping when none (or None) was passed.
C5_DetailsPreserved ==
    \A r \in RequestIds :
        AnsweredTyped(r) =>
            requests[r].response.error.details =
                IF PassedDetails(r).isNone THEN EmptyDict ELSE PassedDetails(r)

\* C5 witness: a typed error constructed with details {available: 3,
\* requested: 5} and answered with them.
C5_Witness ==
    \E r \in RequestIds :
        /\ AnsweredTyped(r)
        /\ requests[r].args.details.given
        /\ requests[r].args.details.v = Dict({<<"available", 3>>, <<"requested", 5>>})
        /\ requests[r].response.error.details = requests[r].args.details.v

\* The six statuses of the taxonomy.
TaxonomyStatuses == {400, 401, 403, 404, 409, 500}

\* C9 as stated: every response of either handler has one of the six
\* statuses, for every exception, the base type built directly included.
C9_StatusAlwaysInTaxonomy ==
    \A r \in RequestIds :
        requests[r].pc = "responded" =>
            requests[r].response.status_code \in TaxonomyStatuses

\* C9 amended: the generic handler answers 500; the typed handler answers with
\* the exception's own status_code, which is the subtype's fixed status for
\* the six subtypes and, for the base type built directly, the status_code
\* argument (500 when omitted) whether or not it is one of the six.
C9_StatusMirrorsException ==
    \A r \in RequestIds :
        /\ AnsweredGeneric(r) => requests[r].response.status_code = 500
        /\ AnsweredTyped(r) =>
              /\ requests[r].response.status_code = requests[r].exc.status_code
              /\ requests[r].exc.cls \in Subtypes =>
                    requests[r].response.status_code = FixedStatus(requests[r].exc.cls)
              /\ requests[r].exc.cls = "BaseAPIException" =>
                    requests[r].response.status_code
                        = Arg(requests[r].args.status_code, 500)
              /\ (requests[r].exc.cls \in Subtypes
                    \/ ~requests[r].args.status_code.given) =>
                    requests[r].response.status_code \in TaxonomyStatuses

\* C9 witness: BaseAPIException(message, status_code=418) answered with 418.
C9_Witness ==
    \E r \in RequestIds :
        /\ AnsweredTyped(r)
        /\ requests[r].exc.cls = "BaseAPIException"
        /\ requests[r].args.status_code = Given(418)
        /\ requests[r].response.status_code = 418

-----------------------------------------------------------------------------
(* Claims about the settings provider and the engine *)

\* C6: with the memoization never cleared, Settings is constructed at most
\* once, and every get_settings() call returns that one instance, the one the
\* module-level `settings` names, even after environment variables changed.
C6_SettingsConstructedOnce ==
    /\ Len(instances) <= 1
    /\ settings # 0 => (settings = 1 /\ cache = settings)
    /\ lastCall.kind = "returned" => (settings # 0 /\ lastCall.id = settings)

\* C6 witness: a get_settings() call made when the environment would no
\* longer give the same Settings returned the first and only instance.
C6_Witness ==
    /\ lastCall.kind = "returned"
    /\ ~lastCall.current
    /\ lastCall.id = 1
    /\ Len(instances) = 1

\* a and b are the same text but for the case of ASCII letters.
SameIgnoringCase(a, b) ==
    /\ Len(a) = Len(b)
    /\ \A i \in 1..Len(a) :
          \/ a[i] = b[i]
          \/ \E k \in DOMAIN UpperCase :
                {a[i], b[i]} = {UpperCase[k], LowerCase[k]}

IsLowerCase(s) == \A i \in 1..Len(s) : \A k \in DOMAIN UpperCase : s[i] # UpperCase[k]

\* The direct call of fn has returned or raised.
Called(fn) == fnIn.fn = fn /\ fnOut # NotCalled

\* C7: validate_environment accepts v exactly when v is, ignoring case, one
\* of development, staging, production, and then returns it in lowercase;
\* otherwise it raises. So "PRODUCTION" gives "production", "sandbox" is
\* rejected, and every constructed Settings has a lowercase environment among
\* the three.
C7_EnvironmentValidated ==
    /\ Called("validate_environment") =>
          /\ fnOut.ok <=> \E n \in AllowedEnvironments : SameIgnoringCase(fnIn.v, n)
          /\ fnOut.ok =>
                /\ fnOut.val \in AllowedEnvironments
                /\ IsLowerCase(fnOut.val)
                /\ SameIgnoringCase(fnIn.v, fnOut.val)
          /\ fnIn.v = <<"P", "R", "O", "D", "U", "C", "T", "I", "O", "N">>
                => fnOut = Ok(<<"p", "r", "o", "d", "u", "c", "t", "i", "o", "n">>)
          /\ fnIn.v = <<"s", "a", "n", "d", "b", "o", "x">> => ~fnOut.ok
    /\ Called("Settings") =>
          /\ fnOut.ok =>
                /\ fnOut.val.environment \in AllowedEnvironments
                /\ IsLowerCase(fnOut.val.environment)
                /\ fnIn.environment.given =>
                      SameIgnoringCase(fnIn.environment.v, fnOut.val.environment)
          /\ (fnIn.environment.given
                /\ ~\E n \in AllowedEnvironments :
                        SameIgnoringCase(fnIn.environment.v, n)) => ~fnOut.ok

\* C7 witness: Settings(environment="PRODUCTION") constructed, with
\* environment "production".
C7_Witness ==
    /\ Called("Settings")
    /\ fnIn.environment = Given(<<"P", "R", "O", "D", "U", "C", "T", "I", "O", "N">>)
    /\ fnOut.ok
    /\ fnOut.val.environment = <<"p", "r", "o", "d", "u", "c", "t", "i", "o", "n">>

\* The origins of the examples: "http://a.com" and "http://b.com".
OriginA == PyStr(<<"h", "t", "t", "p", ":", "/", "/", "a", ".", "c", "o", "m">>)
OriginB == PyStr(<<"h", "t", "t", "p", ":", "/", "/", "b", ".", "c", "o", "m">>)

\* Every element of the list is a str.
AllStr(v) == \A i \in 1..Len(v.list) : IsStr(v.list[i])

\* The three rules of the CORS validator: a list is returned unchanged, a
\* string beginning with "[" is parsed as a JSON array, any other string is
\* split on commas and each piece trimmed, in order.
C8_Mapping ==
    Called("assemble_cors_origins") =>
        /\ IsList(fnIn.raw) => fnOut = Ok(fnIn.raw)
        /\ (IsStr(fnIn.raw) /\ StartsWith(fnIn.raw.str, <<"[">>)) =>
              /\ fnOut = json_loads(fnIn.raw.str)
              /\ fnOut.ok => IsList(fnOut.val)
        /\ (IsStr(fnIn.raw) /\ ~StartsWith(fnIn.raw.str, <<"[">>)) =>
              LET pieces == Split(fnIn.raw.str, ",")
              IN  /\ fnOut.ok /\ IsList(fnOut.val)
                  /\ Len(fnOut.val.list) = Len(pieces)
                  /\ Len(pieces) =
                        Cardinality({i \in 1..Len(fnIn.raw.str) :
                                        fnIn.raw.str[i] = ","}) + 1
                  /\ \A i \in 1..Len(pieces) :
                        fnOut.val.list[i] = PyStr(Strip(pieces[i]))
        /\ fnIn.raw = PyStr(
                <<"h", "t", "t", "p", ":", "/", "/", "a", ".", "c", "o", "m",
                  ",", "h", "t", "t", "p", ":", "/", "/", "b", ".", "c", "o",
                  "m">>)
              => fnOut = Ok(PyList(<<OriginA, OriginB>>))
        /\ fnIn.raw = PyStr(
                <<"[", "\"", "h", "t", "t", "p", ":", "/", "/", "a", ".",
                  "c", "o", "m", "\"", "]">>)
              => fnOut = Ok(PyList(<<OriginA>>))

\* C8 as stated: the three rules, and the validator's result is always a list
\* of strings.
C8_ResultAlwaysListOfStrings ==
    /\ C8_Mapping
    /\ (Called("assemble_cors_origins") /\ fnOut.ok) =>
          (IsList(fnOut.val) /\ AllStr(fnOut.val))

\* C8 amended: the three rules; the result is an ordered list, and a list of
\* strings for a list of strings and for every string that does not begin
\* with "["; a JSON array is returned as parsed, non-string elements included
\* (malformed JSON raises), and it is the field's List[str] validation that
\* then rejects them, so that a constructed Settings holds a list of strings.
C8_CorsOriginsAssembled ==
    /\ C8_Mapping
    /\ Called("assemble_cors_origins") =>
          /\ fnOut.ok => IsList(fnOut.val)
          /\ (fnOut.ok /\ ~AllStr(fnOut.val)) =>
                \/ IsStr(fnIn.raw) /\ StartsWith(fnIn.raw.str, <<"[">>)
                \/ IsList(fnIn.raw) /\ ~AllStr(fnIn.raw)
    /\ Called("Settings") =>
          /\ fnOut.ok =>
                /\ IsList(fnOut.val.backend_cors_origins)
                /\ AllStr(fnOut.val.backend_cors_origins)
          /\ (fnOut.ok /\ fnIn.backend_cors_origins.given) =>
                Ok(fnOut.val.backend_cors_origins)
                    = assemble_cors_origins(fnIn.backend_cors_origins.v)
          /\ (fnIn.backend_cors_origins.given
                /\ ( ~assemble_cors_origins(fnIn.backend_cors_origins.v).ok
                     \/ ~AllStr(assemble_cors_origins(fnIn.backend_cors_origins.v).val)))
                => ~fnOut.ok

\* C8 witness: a comma-separated string with blanks around the origins, split
\* and trimmed in order.
C8_Witness ==
    /\ Called("assemble_cors_origins")
    /\ fnIn.raw = PyStr(
                <<" ", "h", "t", "t", "p", ":", "/", "/", "a", ".", "c", "o",
                  "m", " ", ",", " ", "h", "t", "t", "p", ":", "/", "/", "b",
                  ".", "c", "o", "m", "\t">>)
    /\ fnOut = Ok(PyList(<<OriginA, OriginB>>))

\* The dialect a connection string names: what precedes the first ":" or "+".
Dialect(url) ==
    LET stops == {i \in 1..Len(url) : url[i] \in {":", "+"}}
    IN  IF stops = {} THEN url
        ELSE SubSeq(url, 1, (CHOOSE i \in stops : \A j \in stops : i <= j) - 1)

\* C10: the engine's connect_args are {check_same_thread: False} exactly when
\* the connection string's dialect is sqlite, and empty for any other
\* dialect, whatever the rest of the string holds.
C10_ConnectArgsIffSqliteDialect ==
    engine.created =>
        /\ engine.connect_args = {<<"check_same_thread", FALSE>>}
              <=> Dialect(engine.url) = <<"s", "q", "l", "i", "t", "e">>
        /\ Dialect(engine.url) # <<"s", "q", "l", "i", "t", "e">> => engine.connect_args = {}

\* The flags of the Settings instance the engine was created from.
EngineFlags == [db_echo |-> instances[settings].db_echo,
                debug |-> instances[settings].debug]

\* C11: the engine echoes SQL exactly when db_echo or debug is true in the
\* settings it was created from: off when both are false, on for the three
\* other combinations of the two flags.
C11_EchoIffDbEchoOrDebug ==
    engine.created =>
        /\ engine.echo <=> (EngineFlags.db_echo \/ EngineFlags.debug)
        /\ EngineFlags = [db_echo |-> FALSE, debug |-> FALSE] => ~engine.echo
        /\ EngineFlags = [db_echo |-> FALSE, debug |-> TRUE] => engine.echo
        /\ EngineFlags = [db_echo |-> TRUE, debug |-> FALSE] => engine.echo
        /\ EngineFlags = [db_echo |-> TRUE, debug |-> TRUE] => engine.echo

\* C11 witness: an engine created with DB_ECHO=true and DEBUG=false, echoing.
C11_Witness ==
    /\ engine.created
    /\ EngineFlags = [db_echo |-> TRUE, debug |-> FALSE]
    /\ engine.echo

-----------------------------------------------------------------------------
(* More claims about the session provider *)

\* Scope s is open: it has yielded its session and has not been resumed.
Open(s) == scopes[s].pc = "yielded"

\* C12: under every interleaving of the scopes, the first next() of a scope
\* makes a session that did not exist before; two scopes open at the same time
\* never hold the same session; the session of an open scope is open; and a
\* step that ends one scope leaves the session of every other open scope open
\* and untouched.
C12_EachScopeOwnSession ==
    /\ [](\A s, u \in ScopeIds :
            /\ Open(s) => sessions[scopes[s].db].state = "open"
            /\ (Open(s) /\ Open(u) /\ s # u) => scopes[s].db # scopes[u].db)
    /\ [][\A s \in ScopeIds :
            /\ (~Open(s) /\ Open(s)') =>
                  /\ scopes'[s].db = Len(sessions) + 1
                  /\ Len(sessions') = Len(sessions) + 1
                  /\ \A i \in 1..Len(sessions) : sessions'[i] = sessions[i]
            /\ (Open(s) /\ scopes'[s].pc = "done") =>
                  \A u \in ScopeIds \ {s} :
                      Open(u) =>
                          /\ Open(u)'
                          /\ sessions'[scopes[u].db] = sessions[scopes[u].db]
                          /\ sessions'[scopes[u].db].state = "open"]_vars

\* C12 witness: two scopes were open together; the one opened second has
\* ended and its session is closed, the one opened first is still open, with
\* its pending row.
C12_Witness ==
    \E s, u \in ScopeIds :
        /\ Open(u)
        /\ Exited(s)
        /\ scopes[u].db < scopes[s].db
        /\ sessions[scopes[s].db].state = "closed"
        /\ sessions[scopes[u].db].state = "open"
        /\ sessions[scopes[u].db].pending = {"r1"}

-----------------------------------------------------------------------------
(* Claims about the engine's lifetime *)

\* C13: once created, at the import of app.db.session, the engine is never
\* replaced or changed, and neither is the module-level `settings` it was
\* created from; it holds that instance's database URL; every session made by
\* get_db() is bound to it and every init_db() creates the tables on it,
\* whatever get_settings() returns by then.
C13_EngineCreatedOnce ==
    /\ [](engine.created =>
            /\ settings # 0
            /\ engine = create_engine(instances[settings])
            /\ engine.url = instances[settings].database_url
            /\ \A i \in 1..Len(sessions) :
                  /\ sessions[i].bind = engine
                  /\ sessions[i].bind.url = instances[settings].database_url
            /\ lastInitDb.called =>
                  /\ lastInitDb.bind = engine
                  /\ lastInitDb.bind.url = instances[settings].database_url)
    /\ [][/\ engine.created => engine' = engine
          /\ settings # 0 => settings' = settings
          /\ \A i \in 1..Len(sessions) : sessions'[i].bind = sessions[i].bind]_vars

\* C13 witness: the memoization was cleared and get_settings() has returned a
\* second instance with another database URL; two sessions and an init_db()
\* call, one scope still open, are all on the engine of the first instance.
C13_Witness ==
    /\ engine.created
    /\ lastCall.kind = "returned"
    /\ lastCall.id = 2
    /\ cache = 2
    /\ settings = 1
    /\ instances[2].database_url # instances[1].database_url
    /\ engine.url = instances[1].database_url
    /\ Len(sessions) = 2
    /\ \E s \in ScopeIds : scopes[s].pc = "yielded"
    /\ lastInitDb.called
    /\ lastInitDb.bind.url # instances[cache].database_url

-----------------------------------------------------------------------------
(* Claims about failed construction *)

\* Settings() on the current environment raises.
ConstructionFails == ~Settings(FromEnviron(environ)).ok

\* C14: Settings() raises exactly on an ENVIRONMENT outside the three names; a
\* get_settings() call that finds the memoization empty then raises, and the
\* step adds no instance, memoizes nothing and leaves the module-level
\* settings as it was, so that every instance ever observable has a validated
\* environment; the next call that returns after a raise has constructed a new
\* instance from the environment of that moment, and memoized it.
C14_FailedConstructionLeavesNothing ==
    /\ [](/\ ConstructionFails <=>
                (environ.ENVIRONMENT.given
                    /\ Lower(environ.ENVIRONMENT.v) \notin AllowedEnvironments)
          /\ lastCall.kind = "raised" =>
                /\ cache = 0
                /\ lastCall.err = "ValidationError"
                /\ lastCall.environment.given
                /\ Lower(lastCall.environment.v) \notin AllowedEnvironments
          /\ \A i \in 1..Len(instances) :
                instances[i].environment \in AllowedEnvironments
          /\ cache # 0 => cache \in 1..Len(instances))
    /\ [][/\ (cache = 0 /\ ConstructionFails /\ environ' = environ) =>
                /\ instances' = instances
                /\ cache' = 0
                /\ settings' = settings
                /\ lastCall'.kind = "raised"
          /\ Len(instances') > Len(instances) =>
                /\ cache = 0 /\ ~ConstructionFails
                /\ instances' = Append(instances, Settings(FromEnviron(environ)).val)
                /\ cache' = Len(instances')
                /\ lastCall'.kind = "returned" /\ lastCall'.id = cache'
          /\ (lastCall.kind = "raised" /\ lastCall'.kind = "returned") =>
                /\ Len(instances') = Len(instances) + 1
                /\ lastCall'.afterRaise /\ lastCall'.current]_vars

\* C14 witness: with the memoization cleared, a get_settings() call raised on
\* ENVIRONMENT=sandbox; the next call, under ENVIRONMENT=Staging, constructed
\* the second instance, with environment "staging".
C14_Witness ==
    /\ lastCall.kind = "returned"
    /\ lastCall.afterRaise
    /\ lastCall.id = 2
    /\ cache = 2
    /\ settings = 1
    /\ Len(instances) = 2
    /\ instances[2].environment = <<"s", "t", "a", "g", "i", "n", "g">>
    /\ environ.ENVIRONMENT = Given(<<"S", "t", "a", "g", "i", "n", "g">>)

-----------------------------------------------------------------------------
(* Claims about the exits of a get_db() scope *)

\* C15: a scope that yielded a session and has ended, on whichever path, had
\* close() called on its session exactly once, by get_db and after nothing
\* else; when the caller raised inside the scope, the generator ended by
\* raising that same exception, and it raises nothing the caller did not
\* raise. A scope still open has had no close().
C15_ClosedOnceThenSameException ==
    \A s \in ScopeIds :
        /\ Exited(s) =>
              /\ sessions[scopes[s].db].closes = 1
              /\ sessions[scopes[s].db].ops = <<"SessionLocal", "close">>
              /\ scopes[s].thrown \in CallerExceptions =>
                    /\ scopes[s].exit = "raised"
                    /\ scopes[s].exc = scopes[s].thrown
              /\ scopes[s].exit = "raised" =>
                    /\ scopes[s].thrown \in CallerExceptions
                    /\ scopes[s].exc = scopes[s].thrown
              /\ scopes[s].thrown = "none" =>
                    /\ scopes[s].exit \in {"returned", "closed"}
                    /\ scopes[s].exc = "none"
        /\ Open(s) => sessions[scopes[s].db].closes = 0

\* C15 witness: the caller added a row and raised NotFoundException; the
\* session was closed once, the row dropped, and NotFoundException left the
\* generator.
C15_Witness ==
    \E s \in ScopeIds :
        /\ Exited(s)
        /\ scopes[s].thrown = "NotFoundException"
        /\ scopes[s].exit = "raised"
        /\ scopes[s].exc = "NotFoundException"
        /\ sessions[scopes[s].db].closes = 1
        /\ sessions[scopes[s].db].dropped = {"r1"}

-----------------------------------------------------------------------------
(* Claims about the details mapping as an object *)

\* Request r holds a typed error, answered or not.
HasError(r) == requests[r].pc \in {"raised", "responded"}

\* The error of request r was constructed without a details argument.
WithoutDetails(r) == HasError(r) /\ requests[r].argRef = 0

\* C16: an error constructed without details has a details mapping of its
\* own, made by its constructor: no other error and no caller names it. So
\* whatever was constructed and whichever details were mutated, unless its
\* own details were mutated the mapping is empty, and so are the details of
\* its envelope.
C16_DetailsNotShared ==
    \A r \in RequestIds :
        WithoutDetails(r) =>
            /\ heap[requests[r].ref].by = "constructor"
            /\ \A q \in RequestIds \ {r} :
                  HasError(q) =>
                      /\ requests[q].ref # requests[r].ref
                      /\ requests[q].argRef # requests[r].ref
            /\ (~requests[r].mutated /\ requests[r].pc = "raised") =>
                  heap[requests[r].ref].items = {}
            /\ (~requests[r].mutated /\ requests[r].pc = "responded") =>
                  requests[r].response.error.details = EmptyDict

\* C16 witness: two errors constructed without details; the details of one
\* were mutated and are in its envelope, the other's envelope has empty
\* details.
C16_Witness ==
    \E r, q \in RequestIds :
        /\ r # q
        /\ WithoutDetails(r) /\ WithoutDetails(q)
        /\ requests[r].mutated
        /\ requests[r].pc = "responded"
        /\ requests[r].response.error.details = Dict({<<"retry_after", 30>>})
        /\ ~requests[q].mutated
        /\ requests[q].pc = "responded"
        /\ requests[q].response.error.details = EmptyDict

====
